---- MODULE Spec2Model ----
(***************************************************************************)
(* Model of the healthcare chatbot backend (backend/app/main.py):          *)
(*   - ConnectionManager: the list of accepted websockets,                 *)
(*   - RasaClient.send_message: the walk over the candidate Rasa URLs,     *)
(*   - websocket_chat_endpoint: the per-connection receive loop.           *)
(* One action is one stretch of a coroutine between two awaits.            *)
(***************************************************************************)
EXTENDS Integers, Sequences, FiniteSets, TLC

\* ----------------------------------------------------------------- bounds
NumConns == 2        \* websockets that may connect
MaxFrames == 2       \* inbound frames delivered to the server, all sockets
MaxReplies == 2      \* longest reply list a Rasa endpoint returns
MaxRequests == 2     \* POST /api/v1/chat requests served
MaxSymptoms == 2     \* longest symptoms slot given to the classifier
MaxWords == 2        \* longest latest message given to the classifier
MaxOps == 2          \* requests served by the persistence endpoints
MaxHealth == 2       \* calls of check_rasa_health

Conns == 1..NumConns

\* The callers of send_message: the websocket handlers and the REST endpoint.
Rest == 0
Tasks == Conns \cup {Rest}

VARIABLES
    rasa_url,            \* RasaClient.rasa_url
    fallback_urls,       \* RasaClient.fallback_urls
    active_connections,  \* ConnectionManager.active_connections (a list)
    transport,           \* per websocket: "open" or "closed" (writes and reads fail)
    pc,                  \* per task: position of websocket_chat_endpoint, or of
                         \*   chat_endpoint for the REST caller
    data,                \* per websocket: the frame last returned by receive_text
    user_message,        \* per websocket: local user_message
    rasa_response,       \* per task: local rasa_response
    url_idx,             \* per task: endpoints of urls_to_try already tried
    out,                 \* per websocket: frames written to the client, in order
    nframes,             \* inbound frames delivered so far
    calls,               \* history: URLs posted to during the current send_message
    nfail,               \* history: calls of the current send_message that failed
    got,                 \* history: what the answering endpoint returned
    lastSend,            \* history: number and outcome of the last send_personal_message,
                         \*   and whether the websocket was in the list when it wrote
    dispatchRaised,      \* history: send_message let an exception out
    escaped,             \* history: exception that left websocket_chat_endpoint
    request,             \* chat_endpoint: the body of the request being served
    response,            \* chat_endpoint: the last response returned
    nrequests,           \* chat_endpoint: requests received so far
    symptoms,            \* action server: the tracker's symptoms slot
    latest_message,      \* action server: text of tracker.latest_message
    urgency_level,       \* action server: the urgency_level slot
    startup,             \* position of startup_event
    attempt,             \* wait_for_rasa: the loop variable
    probes,              \* history: probes and sleeps of wait_for_rasa, in order
    ready,               \* what wait_for_rasa returned
    db_client,           \* the imported database client, or None
    pool,                \* db_client.pool
    store_up,            \* environment: the database accepts connections
    op,                  \* persistence endpoint being served and its position
    queries,             \* history: queries the request has issued, in order
    op_status,           \* status of the response to the request
    nops,                \* persistence requests received so far
    rows,                \* the database: rows create_appointment has written
    rows_before,         \* history: rows when the request was received
    symptom_data,        \* action server: the report action_save_symptom_report posts
    health_calls,        \* history: URLs check_rasa_health has requested
    rasa_healthy         \* what check_rasa_health returned last

restVars == <<request, response, nrequests>>
triageVars == <<symptoms, latest_message, urgency_level, symptom_data>>
startupVars == <<startup, attempt, probes, ready>>
storeVars == <<db_client, pool, store_up, op, queries, op_status, nops, rows,
               rows_before>>
healthVars == <<health_calls, rasa_healthy>>

\* Everything the websocket handlers never touch.
outside == <<restVars, triageVars, startupVars, storeVars, healthVars>>

vars == <<rasa_url, fallback_urls, active_connections, transport, pc, data,
          user_message, rasa_response, url_idx, out, nframes, calls, nfail,
          got, lastSend, dispatchRaised, escaped, request, response, nrequests,
          symptoms, latest_message, urgency_level, startup, attempt, probes,
          ready, db_client, pool, store_up, op, queries, op_status, nops, rows,
          rows_before, symptom_data, health_calls, rasa_healthy>>

\* ------------------------------------------------------------- JSON values
\* A JSON value as the handlers see it: obj tells whether it is an object,
\* keys the fields it carries.
Button(t, p) == [title |-> t, payload |-> p]

Dict(keys, text, buttons) ==
    [obj |-> TRUE, keys |-> keys, text |-> text, buttons |-> buttons]

NonObject == [obj |-> FALSE, keys |-> {}, text |-> "", buttons |-> <<>>]

NoValue == [obj |-> FALSE, keys |-> {"unset"}, text |-> "", buttons |-> <<>>]

\* First replies a Rasa endpoint may put in its list.
Replies ==
    { Dict({"text", "buttons"}, "Hello", <<Button("Yes", "/affirm")>>),
      Dict({}, "", <<>>),
      NonObject }

ReplyLists == UNION { [1..n -> Replies] : n \in 0..MaxReplies }

\* What one POST to an endpoint can come back with.
Responses ==
    { [kind |-> k, body |-> <<>>] :
        k \in {"ConnectError", "TimeoutException", "status", "badjson"} }
    \cup { [kind |-> "ok", body |-> b] : b \in ReplyLists }

\* ------------------------------------------------------------ RasaClient
FallbackText ==
    "I'm having trouble processing your message right now. How can I help you with your health concerns?"

\* Mutant: the fallback loses its last suggested action.
_create_fallback_response_two_buttons ==
    Dict({"text", "buttons"}, FallbackText,
         << Button("Report Symptoms", "/report_symptoms"),
            Button("Book Appointment", "/book_appointment") >>)

_create_fallback_response ==
    Dict({"text", "buttons"}, FallbackText,
         << Button("Report Symptoms", "/report_symptoms"),
            Button("Book Appointment", "/book_appointment"),
            Button("Get Advice", "/get_health_advice") >>)

urls_to_try == <<rasa_url>> \o fallback_urls

\* Mutant: no "except Exception" clause, an undecodable body gets out.
send_message_step_no_catch_all(resp) ==
    IF resp.kind \in {"ConnectError", "TimeoutException", "status"}
    THEN [next |-> "continue", value |-> NoValue]
    ELSE IF resp.kind = "badjson"
    THEN [next |-> "raise", value |-> NoValue]
    ELSE IF Len(resp.body) > 0
    THEN [next |-> "return", value |-> resp.body[1]]
    ELSE [next |-> "return", value |-> _create_fallback_response]

\* Mutant: returns the last reply of the list, not the first.
send_message_step_last_reply(resp) ==
    IF resp.kind # "ok"
    THEN [next |-> "continue", value |-> NoValue]
    ELSE IF Len(resp.body) > 0
    THEN [next |-> "return", value |-> resp.body[Len(resp.body)]]
    ELSE [next |-> "return", value |-> _create_fallback_response]

\* Mutant: an empty reply list moves on to the next URL.
send_message_step_empty_continues(resp) ==
    IF resp.kind # "ok"
    THEN [next |-> "continue", value |-> NoValue]
    ELSE IF Len(resp.body) > 0
    THEN [next |-> "return", value |-> resp.body[1]]
    ELSE [next |-> "continue", value |-> NoValue]

\* One iteration of the for loop of send_message on the response resp:
\* what the loop does next and, when it returns, the value.
send_message_step(resp) ==
    CASE resp.kind = "ConnectError" ->
            [next |-> "continue", value |-> NoValue]
      [] resp.kind = "TimeoutException" ->
            [next |-> "continue", value |-> NoValue]
      [] resp.kind = "status" ->
            [next |-> "continue", value |-> NoValue]
      [] resp.kind = "badjson" ->
            \* response.json() raises; except Exception: continue
            [next |-> "continue", value |-> NoValue]
      [] OTHER ->
            IF Len(resp.body) > 0
            THEN [next |-> "return", value |-> resp.body[1]]
            ELSE [next |-> "return", value |-> _create_fallback_response]

\* ----------------------------------------------------- ConnectionManager
In(ws, conns) == \E i \in DOMAIN conns : conns[i] = ws

\* Mutant: the removal takes the oldest entry, whoever it belongs to.
remove_head(conns, ws) == Tail(conns)

\* list.remove: drops the first occurrence.
RECURSIVE remove(_, _)
remove(conns, ws) ==
    IF conns = <<>> THEN <<>>
    ELSE IF Head(conns) = ws THEN Tail(conns)
    ELSE <<Head(conns)>> \o remove(Tail(conns), ws)

\* Mutant: no membership test before list.remove, which raises on absence.
disconnect_no_guard(conns, ws) ==
    IF In(ws, conns)
    THEN [conns |-> remove(conns, ws), exc |-> "none"]
    ELSE [conns |-> conns, exc |-> "ValueError"]

\* exc is the exception disconnect ends with, "none" when it returns.
disconnect(conns, ws) ==
    IF In(ws, conns)
    THEN [conns |-> remove(conns, ws), exc |-> "none"]
    ELSE [conns |-> conns, exc |-> "none"]

\* Mutant: the write error is logged and the websocket stays in the list.
send_personal_message_keeps(conns, ws, ok) ==
    [conns |-> conns, wrote |-> ok, ret |-> "None", exc |-> "none"]

\* send_personal_message on a transport whose write succeeds (ok) or fails:
\* the list afterwards, whether the frame was written, the value returned.
send_personal_message(conns, ws, ok) ==
    IF ok
    THEN [conns |-> conns, wrote |-> TRUE, ret |-> "None", exc |-> "none"]
    ELSE LET d == disconnect(conns, ws)
         IN  [conns |-> d.conns, wrote |-> FALSE, ret |-> "None", exc |-> d.exc]

\* ------------------------------------------------ websocket_chat_endpoint
\* Mutant: only the WebSocketDisconnect clause calls manager.disconnect.
handler_except_disconnect_only(conns, ws, exc) ==
    IF exc = "WebSocketDisconnect"
    THEN disconnect(conns, ws)
    ELSE [conns |-> conns, exc |-> "none"]

\* The two except clauses that end the receive loop.
handler_except(conns, ws, exc) ==
    IF exc = "WebSocketDisconnect"
    THEN disconnect(conns, ws)
    ELSE disconnect(conns, ws)

\* dict.get(key, default)
Get(d, key, default) == IF key \in d.keys THEN d[key] ELSE default

\* An outbound frame; the timestamp every frame carries is left out.
Frame(type, message, sender, buttons, isTyping) ==
    [type |-> type, message |-> message, sender |-> sender, buttons |-> buttons,
     isTyping |-> isTyping]

WelcomeText == "Connected to healthcare chatbot. How can I help you today?"

\* Inbound frames: the text the client sent, as json.loads sees it.
Inbound(json, keys, type, message, isTyping) ==
    [json |-> json, keys |-> keys, type |-> type, message |-> message,
     isTyping |-> isTyping]

NoData == Inbound("none", {}, "", "", FALSE)

InboundFrames ==
    { Inbound("object", {"type", "message"}, "message", "hi", FALSE),
      Inbound("object", {"type", "message"}, "message", "", FALSE),
      Inbound("object", {"type", "isTyping"}, "typing", "", TRUE),
      Inbound("object", {"type"}, "ping", "", FALSE),
      Inbound("nonobject", {}, "", "", FALSE),
      Inbound("invalid", {}, "", "", FALSE) }

Malformed(f) ==
    \/ f.json \in {"invalid", "nonobject"}
    \/ f.json = "object" /\ f.type \notin {"message", "typing"}

NoSend == [n |-> 0, failed |-> FALSE, ret |-> "None", member |-> FALSE]

NoAnswer == [kind |-> "none", first |-> NoValue]

\* A request body of POST /api/v1/chat: the keys it has and their values.
Request(keys, message, session_id) ==
    [obj |-> TRUE, keys |-> keys, message |-> message, session_id |-> session_id]

NoRequest == Request({}, "", "")

Requests ==
    { Request({"message", "session_id"}, "hi", "s1"),
      Request({"message"}, "hi", ""),
      Request({"message", "session_id"}, "", "s1"),
      Request({"message"}, "", ""),
      Request({"session_id"}, "", "s1"),
      Request({}, "", "") }

\* An HTTP response: its status and the JSON object of its body.
Response(status, keys, text, buttons, session_id) ==
    [status |-> status, keys |-> keys, text |-> text, buttons |-> buttons,
     session_id |-> session_id]

NoResponse == Response(0, {}, "", <<>>, "")

\* The state after construction, with the given tasks about to run: the
\* module-level manager and rasa_client, and nothing received yet.
Start(tasks) ==
    /\ rasa_url = "http://localhost:5005"
    /\ fallback_urls = << "http://localhost:5005", "http://127.0.0.1:5005",
                          "http://rasa:5005" >>
    /\ active_connections = <<>>
    /\ transport = [c \in Conns |-> IF c \in tasks THEN "open" ELSE "closed"]
    /\ pc = [t \in Tasks |-> IF t \in tasks THEN "idle" ELSE "done"]
    /\ data = [c \in Conns |-> NoData]
    /\ user_message = [c \in Conns |-> ""]
    /\ rasa_response = [t \in Tasks |-> NoValue]
    /\ url_idx = [t \in Tasks |-> 0]
    /\ out = [c \in Conns |-> <<>>]
    /\ nframes = 0
    /\ calls = [t \in Tasks |-> <<>>]
    /\ nfail = [t \in Tasks |-> 0]
    /\ got = [t \in Tasks |-> NoAnswer]
    /\ lastSend = [c \in Conns |-> NoSend]
    /\ dispatchRaised = [t \in Tasks |-> FALSE]
    /\ escaped = [c \in Conns |-> "none"]
    /\ request = NoRequest
    /\ response = NoResponse
    /\ nrequests = 0
    /\ health_calls = <<>>
    /\ rasa_healthy = "unset"

\* A slot of the tracker: unset, one string, or a list of strings. The value
\* is the list, or the one string as a list of one.
Slot(type, value) == [type |-> type, value |-> value]

NoSlot == Slot("None", <<>>)

\* The body action_save_symptom_report posts to /api/v1/symptoms.
Report(severity, urgency) ==
    [posted |-> TRUE, severity |-> severity, urgency_level |-> urgency]

NoReport == [posted |-> FALSE, severity |-> 0, urgency_level |-> "unset"]

\* The action server has no conversation to assess.
TriageIdle ==
    /\ symptoms = NoSlot
    /\ latest_message = <<>>
    /\ urgency_level = "unset"
    /\ symptom_data = NoReport

\* startup_event has completed, Rasa having answered the first probe.
Started ==
    /\ startup = "complete"
    /\ attempt = 0
    /\ probes = <<"200">>
    /\ ready = "True"

\* A persistence endpoint and how far its handler has come.
Op(name, step) == [name |-> name, step |-> step]

NoOp == Op("none", 0)

\* The writes committed to the tables patients and appointments.
Rows(patients, appointments) ==
    [patients |-> patients, appointments |-> appointments]

NoRows == Rows(0, 0)

\* No persistence request has been received.
StoreIdle ==
    /\ op = NoOp
    /\ queries = <<>>
    /\ op_status = 0
    /\ nops = 0
    /\ rows = NoRows
    /\ rows_before = NoRows

\* The database client as a successful startup leaves it.
StoreConnected ==
    /\ db_client = "client"
    /\ pool = "pool"
    /\ store_up = TRUE
    /\ StoreIdle

Init == Start(Conns) /\ TriageIdle /\ Started /\ StoreConnected

config == <<rasa_url, fallback_urls>>
gateway == <<rasa_response, url_idx, calls, nfail, got, dispatchRaised>>

\* ------------------------------------------------------------ environment
\* The client closes the socket, or the connection is lost.
ClientClose(c) ==
    /\ pc[c] # "done"
    /\ transport[c] # "closed"
    /\ transport' = [transport EXCEPT ![c] = "closed"]
    /\ UNCHANGED <<config, active_connections, pc, data, user_message, out,
                   nframes, gateway, lastSend, escaped, outside>>

\* ---------------------------------------------------------------- handler
\* The receive loop ends through one of its except clauses.
Exit(c, exc) ==
    LET d == handler_except(active_connections, c, exc)
    IN  /\ active_connections' = d.conns
        /\ pc' = [pc EXCEPT ![c] = "done"]
        /\ escaped' = [escaped EXCEPT ![c] = d.exc]

\* await manager.send_personal_message(frame, websocket) inside the try,
\* then go on at position next.
Send(c, frame, next) ==
    LET s == send_personal_message(active_connections, c, transport[c] = "open")
    IN  /\ out' = [out EXCEPT ![c] = IF s.wrote THEN Append(@, frame) ELSE @]
        /\ lastSend' = [lastSend EXCEPT
                          ![c] = [n |-> @.n + 1, failed |-> ~s.wrote, ret |-> s.ret,
                                  member |-> In(c, active_connections)]]
        /\ IF s.exc = "none"
           THEN /\ active_connections' = s.conns
                /\ pc' = [pc EXCEPT ![c] = next]
                /\ UNCHANGED escaped
           ELSE LET d == handler_except(s.conns, c, s.exc)
                IN  /\ active_connections' = d.conns
                    /\ pc' = [pc EXCEPT ![c] = "done"]
                    /\ escaped' = [escaped EXCEPT ![c] = d.exc]

\* manager.connect: accept the handshake and append the websocket.
Connect(c) ==
    /\ pc[c] = "idle"
    /\ IF transport[c] = "open"
       THEN /\ active_connections' = Append(active_connections, c)
            /\ pc' = [pc EXCEPT ![c] = "welcome"]
            /\ UNCHANGED escaped
       ELSE /\ pc' = [pc EXCEPT ![c] = "done"]
            /\ escaped' = [escaped EXCEPT ![c] = "accept"]
            /\ UNCHANGED active_connections
    /\ UNCHANGED <<config, transport, data, user_message, out, nframes,
                   gateway, lastSend, outside>>

\* Mutant: the handler goes to its loop without the welcome frame.
Welcome_not_sent(c) ==
    /\ pc[c] = "welcome"
    /\ pc' = [pc EXCEPT ![c] = "receive"]
    /\ UNCHANGED <<config, active_connections, transport, data, user_message,
                   out, nframes, gateway, lastSend, escaped, outside>>

\* The welcome frame, sent before the try block.
Welcome(c) ==
    /\ pc[c] = "welcome"
    /\ LET s == send_personal_message(active_connections, c, transport[c] = "open")
       IN  /\ out' = [out EXCEPT ![c] =
                        IF s.wrote
                        THEN Append(@, Frame("system", WelcomeText, "", <<>>, FALSE))
                        ELSE @]
           /\ lastSend' = [lastSend EXCEPT
                             ![c] = [n |-> @.n + 1, failed |-> ~s.wrote, ret |-> s.ret,
                                  member |-> In(c, active_connections)]]
           /\ active_connections' = s.conns
           /\ pc' = [pc EXCEPT ![c] = IF s.exc = "none" THEN "receive" ELSE "done"]
           /\ escaped' = [escaped EXCEPT ![c] = s.exc]
    /\ UNCHANGED <<config, transport, data, user_message, nframes, gateway,
                   outside>>

\* receive_text raises: the client is gone.
ReceiveClosed(c) ==
    /\ pc[c] = "receive"
    /\ transport[c] = "closed"
    /\ \E exc \in {"WebSocketDisconnect", "RuntimeError"} : Exit(c, exc)
    /\ UNCHANGED <<config, transport, data, user_message, out, nframes,
                   gateway, lastSend, outside>>

\* receive_text returns a frame; json.loads and the branch on its type.
ReceiveFrame(c) ==
    /\ pc[c] = "receive"
    /\ transport[c] # "closed"
    /\ nframes < MaxFrames
    /\ nframes' = nframes + 1
    /\ \E f \in InboundFrames :
        /\ data' = [data EXCEPT ![c] = f]
        /\ IF f.json = "invalid" THEN
                /\ Exit(c, "JSONDecodeError")
                /\ UNCHANGED user_message
           ELSE IF f.json = "nonobject" THEN
                /\ Exit(c, "AttributeError")
                /\ UNCHANGED user_message
           ELSE IF Get(f, "type", "") = "message" THEN
                /\ user_message' = [user_message EXCEPT ![c] = Get(f, "message", "")]
                /\ pc' = [pc EXCEPT ![c] = "echo"]
                /\ UNCHANGED <<active_connections, escaped>>
           ELSE IF Get(f, "type", "") = "typing" THEN
                /\ pc' = [pc EXCEPT ![c] = "typing"]
                /\ UNCHANGED <<active_connections, escaped, user_message>>
           ELSE UNCHANGED <<active_connections, escaped, user_message, pc>>
    /\ UNCHANGED <<config, transport, out, gateway, lastSend, outside>>

\* Mutant: the backend is asked without the echo having been sent.
Echo_not_sent(c) ==
    /\ pc[c] = "echo"
    /\ pc' = [pc EXCEPT ![c] = "dispatch"]
    /\ UNCHANGED <<config, active_connections, transport, data, user_message,
                   out, nframes, gateway, lastSend, escaped, outside>>

\* The echo of the user's message.
Echo(c) ==
    /\ pc[c] = "echo"
    /\ Send(c, Frame("message", user_message[c], "user", <<>>, FALSE), "dispatch")
    /\ UNCHANGED <<config, transport, data, user_message, nframes, gateway,
                   outside>>

\* The typing indicator.
Typing(c) ==
    /\ pc[c] = "typing"
    /\ Send(c, Frame("typing", "", "", <<>>, Get(data[c], "isTyping", FALSE)),
            "receive")
    /\ UNCHANGED <<config, transport, data, user_message, nframes, gateway,
                   outside>>

\* The body of an error response of the REST API.
ErrorResponse(status, keys) == Response(status, keys, "", <<>>, "")

\* send_message: one POST to the next URL of urls_to_try and what follows it
\* up to the next POST or the return. The caller t is a websocket handler,
\* which goes on to its bot frame, or chat_endpoint, which goes on to its
\* response; an exception reaches the caller's except Exception.
TryEndpoint(t) ==
    /\ pc[t] = "dispatch"
    /\ url_idx[t] < Len(urls_to_try)
    /\ \E resp \in Responses :
        LET step == send_message_step(resp)
            last == url_idx[t] + 1 = Len(urls_to_try)
            back == IF t = Rest THEN "respond" ELSE "bot"
        IN  /\ calls' = [calls EXCEPT ![t] = Append(@, urls_to_try[url_idx[t] + 1])]
            /\ url_idx' = [url_idx EXCEPT ![t] = @ + 1]
            /\ IF resp.kind = "ok"
               THEN /\ got' = [got EXCEPT ![t] =
                                 IF Len(resp.body) = 0
                                 THEN [kind |-> "empty", first |-> NoValue]
                                 ELSE [kind |-> "reply", first |-> resp.body[1]]]
                    /\ UNCHANGED nfail
               ELSE /\ nfail' = [nfail EXCEPT ![t] = @ + 1]
                    /\ UNCHANGED got
            /\ CASE step.next = "return" ->
                        /\ rasa_response' = [rasa_response EXCEPT ![t] = step.value]
                        /\ pc' = [pc EXCEPT ![t] = back]
                        /\ UNCHANGED <<active_connections, escaped,
                                       dispatchRaised, response>>
                 [] step.next = "continue" /\ last ->
                        /\ rasa_response' = [rasa_response EXCEPT
                                               ![t] = _create_fallback_response]
                        /\ pc' = [pc EXCEPT ![t] = back]
                        /\ UNCHANGED <<active_connections, escaped,
                                       dispatchRaised, response>>
                 [] step.next = "continue" /\ ~last ->
                        UNCHANGED <<rasa_response, pc, active_connections,
                                    escaped, dispatchRaised, response>>
                 [] OTHER ->
                        /\ dispatchRaised' = [dispatchRaised EXCEPT ![t] = TRUE]
                        /\ UNCHANGED rasa_response
                        /\ IF t = Rest
                           THEN /\ response' = ErrorResponse(500, {"error", "detail"})
                                /\ pc' = [pc EXCEPT ![t] = "idle"]
                                /\ UNCHANGED <<active_connections, escaped>>
                           ELSE /\ Exit(t, "Exception")
                                /\ UNCHANGED response
    /\ UNCHANGED <<config, transport, data, user_message, out, nframes, lastSend,
                   request, nrequests, triageVars, healthVars, startupVars, storeVars>>

\* rasa_response.get(...) for the log line and the bot frame, then the send.
BotReply(c) ==
    /\ pc[c] = "bot"
    /\ IF rasa_response[c].obj
       THEN Send(c, Frame("message", Get(rasa_response[c], "text", ""), "bot",
                          Get(rasa_response[c], "buttons", <<>>), FALSE), "receive")
       ELSE /\ Exit(c, "AttributeError")
            /\ UNCHANGED <<out, lastSend>>
    /\ rasa_response' = [rasa_response EXCEPT ![c] = NoValue]
    /\ url_idx' = [url_idx EXCEPT ![c] = 0]
    /\ calls' = [calls EXCEPT ![c] = <<>>]
    /\ nfail' = [nfail EXCEPT ![c] = 0]
    /\ got' = [got EXCEPT ![c] = NoAnswer]
    /\ UNCHANGED <<config, transport, data, user_message, nframes,
                   dispatchRaised, outside>>

Next ==
    \E c \in Conns :
        \/ ClientClose(c)
        \/ Connect(c)
        \/ Welcome(c)
        \/ ReceiveClosed(c)
        \/ ReceiveFrame(c)
        \/ Echo(c)
        \/ Typing(c)
        \/ TryEndpoint(c)
        \/ BotReply(c)

Spec == Init /\ [][Next]_vars

\* A single client session: the other websockets never connect.
InitOneClient == Start({1}) /\ TriageIdle /\ Started /\ StoreConnected

SpecOneClient == InitOneClient /\ [][Next]_vars

\* ------------------------------------------------- POST /api/v1/chat
\* Mutant: the handler forwards the message without looking at it.
ChatRequest_no_check ==
    /\ pc[Rest] = "idle"
    /\ nrequests < MaxRequests
    /\ nrequests' = nrequests + 1
    /\ \E req \in Requests :
        /\ request' = req
        /\ response' = NoResponse
        /\ pc' = [pc EXCEPT ![Rest] = "dispatch"]
    /\ rasa_response' = [rasa_response EXCEPT ![Rest] = NoValue]
    /\ url_idx' = [url_idx EXCEPT ![Rest] = 0]
    /\ calls' = [calls EXCEPT ![Rest] = <<>>]
    /\ nfail' = [nfail EXCEPT ![Rest] = 0]
    /\ got' = [got EXCEPT ![Rest] = NoAnswer]
    /\ dispatchRaised' = [dispatchRaised EXCEPT ![Rest] = FALSE]
    /\ UNCHANGED <<config, active_connections, transport, data, user_message,
                   out, nframes, lastSend, escaped, triageVars, healthVars, startupVars,
                   storeVars>>

\* chat_endpoint up to its await: read message and session_id from the body,
\* answer 400 when the message is empty, else call send_message.
ChatRequest ==
    /\ pc[Rest] = "idle"
    /\ nrequests < MaxRequests
    /\ nrequests' = nrequests + 1
    /\ \E req \in Requests :
        LET message == Get(req, "message", "")
        IN  /\ request' = req
            /\ IF message = ""
               THEN /\ response' = ErrorResponse(400, {"error"})
                    /\ UNCHANGED pc
               ELSE /\ response' = NoResponse
                    /\ pc' = [pc EXCEPT ![Rest] = "dispatch"]
    /\ rasa_response' = [rasa_response EXCEPT ![Rest] = NoValue]
    /\ url_idx' = [url_idx EXCEPT ![Rest] = 0]
    /\ calls' = [calls EXCEPT ![Rest] = <<>>]
    /\ nfail' = [nfail EXCEPT ![Rest] = 0]
    /\ got' = [got EXCEPT ![Rest] = NoAnswer]
    /\ dispatchRaised' = [dispatchRaised EXCEPT ![Rest] = FALSE]
    /\ UNCHANGED <<config, active_connections, transport, data, user_message,
                   out, nframes, lastSend, escaped, triageVars, healthVars, startupVars,
                   storeVars>>

\* chat_endpoint after send_message has returned: build response_data with
\* rasa_response.get and answer 200; an exception on the way answers 500.
ChatRespond ==
    /\ pc[Rest] = "respond"
    /\ LET session_id == Get(request, "session_id", "default_session")
       IN  response' =
             IF rasa_response[Rest].obj
             THEN Response(200, {"text", "buttons", "session_id", "timestamp"},
                           Get(rasa_response[Rest], "text", ""),
                           Get(rasa_response[Rest], "buttons", <<>>), session_id)
             ELSE ErrorResponse(500, {"error", "detail"})
    /\ pc' = [pc EXCEPT ![Rest] = "idle"]
    /\ UNCHANGED <<config, active_connections, transport, data, user_message,
                   out, nframes, gateway, lastSend, escaped, request, nrequests,
                   triageVars, healthVars, startupVars, storeVars>>

NextRest ==
    \/ ChatRequest
    \/ TryEndpoint(Rest)
    \/ ChatRespond

InitRest == Start({Rest}) /\ TriageIdle /\ Started /\ StoreConnected

SpecRest == InitRest /\ [][NextRest]_vars

\* ------------------------------------------------ action_assess_symptoms
\* A text is a sequence of pieces: words as they were typed, and the blank.
Vocabulary == {"chest", "Chest", "pain", "severe", "cough", " "}

\* str.lower on one piece and on a text.
lower_piece(w) == IF w = "Chest" THEN "chest" ELSE w

lower(text) == [i \in 1..Len(text) |-> lower_piece(text[i])]

\* sep.join(list)
RECURSIVE join(_, _)
join(sep, list) ==
    IF Len(list) = 0 THEN <<>>
    ELSE IF Len(list) = 1 THEN list[1]
    ELSE list[1] \o sep \o join(sep, Tail(list))

\* keyword in text
contains(keyword, text) ==
    \E i \in 0..(Len(text) - Len(keyword)) :
        SubSeq(text, i + 1, i + Len(keyword)) = keyword

emergency_symptoms ==
    << <<"chest", " ", "pain">>, <<"difficulty", " ", "breathing">>,
       <<"severe", " ", "bleeding">>, <<"heart", " ", "attack">> >>

high_priority ==
    << <<"severe", " ", "pain">>, <<"high", " ", "fever">>,
       <<"vomiting", " ", "blood">> >>

\* any(k in text for k in keywords)
any_in(keywords, text) == \E i \in 1..Len(keywords) : contains(keywords[i], text)

\* symptoms = tracker.get_slot("symptoms") or [], and a string made a list.
slot_symptoms(slot) ==
    IF slot.type = "None" THEN <<>>
    ELSE IF slot.type = "str" /\ slot.value[1] = <<>> THEN <<>>
    ELSE slot.value

\* Mutant: the high-priority keywords are looked for first.
assess_symptoms_high_first(slot, message) ==
    LET syms == slot_symptoms(slot)
        symptom_text == IF syms # <<>> THEN lower(join(<<" ">>, syms)) ELSE <<>>
        combined_text == symptom_text \o <<" ">> \o lower(message)
    IN  IF any_in(high_priority, combined_text) THEN "high"
        ELSE IF any_in(emergency_symptoms, combined_text) THEN "emergency"
        ELSE IF syms # <<>> /\ Len(syms) > 1 THEN "medium"
        ELSE "low"

\* ActionAssessSymptoms.run: the urgency level it sets.
assess_symptoms(slot, message) ==
    LET syms == slot_symptoms(slot)
        symptom_text == IF syms # <<>> THEN lower(join(<<" ">>, syms)) ELSE <<>>
        combined_text == symptom_text \o <<" ">> \o lower(message)
    IN  IF any_in(emergency_symptoms, combined_text) THEN "emergency"
        ELSE IF any_in(high_priority, combined_text) THEN "high"
        ELSE IF syms # <<>> /\ Len(syms) > 1 THEN "medium"
        ELSE "low"

\* The symptoms a user reports, as the slot holds them.
SymptomStrings ==
    { <<"chest">>, <<"pain">>, <<"Chest", " ", "pain">>, <<"severe">>,
      <<"severe", " ", "pain">>, <<"cough">>, <<"heart", " ", "attack">> }

Slots ==
    {NoSlot}
      \cup {Slot("str", <<x>>) : x \in SymptomStrings \cup {<<>>}}
      \cup {Slot("list", l) : l \in UNION {[1..n -> SymptomStrings] : n \in 0..MaxSymptoms}}

Messages == UNION {[1..n -> Vocabulary] : n \in 0..MaxWords}

\* The action runs on the tracker's slot and latest message.
AssessSymptoms ==
    /\ urgency_level = "unset"
    /\ urgency_level' = assess_symptoms(symptoms, latest_message)
    /\ UNCHANGED <<config, active_connections, transport, pc, data,
                   user_message, out, nframes, gateway, lastSend, escaped,
                   restVars, symptoms, latest_message, symptom_data,
                   startupVars, storeVars, healthVars>>

urgent_keywords ==
    << <<"emergency">>, <<"severe">>, <<"pain">>, <<"bleeding">>,
       <<"chest", " ", "pain">>, <<"difficulty", " ", "breathing">> >>

\* ActionSaveSymptomReport.run up to its POST: nothing without symptoms, else
\* the report with severity 5 and urgency low, or 8 and high when an urgent
\* keyword occurs in the lowercased symptoms.
save_symptom_report_data(slot) ==
    IF slot.type = "None" \/ slot.value = <<>> \/ slot.value = << <<>> >>
    THEN NoReport
    ELSE LET symptom_text == IF slot.type = "list"
                             THEN lower(join(<<" ">>, slot.value))
                             ELSE lower(slot.value[1])
         IN  IF any_in(urgent_keywords, symptom_text)
             THEN Report(8, "high")
             ELSE Report(5, "low")

\* The action runs on the tracker's slot and posts its report.
SaveSymptomReport ==
    /\ symptom_data = NoReport
    /\ symptom_data' = save_symptom_report_data(symptoms)
    /\ UNCHANGED <<config, active_connections, transport, pc, data,
                   user_message, out, nframes, gateway, lastSend, escaped,
                   restVars, symptoms, latest_message, urgency_level,
                   startupVars, storeVars, healthVars>>

NextTriage ==
    \/ AssessSymptoms
    \/ SaveSymptomReport

InitTriage ==
    /\ Start({})
    /\ symptoms \in Slots
    /\ latest_message \in Messages
    /\ urgency_level = "unset"
    /\ symptom_data = NoReport
    /\ Started
    /\ StoreConnected

SpecTriage == InitTriage /\ [][NextTriage]_vars

\* ---------------------------------------------------------- startup_event
max_retries == 5

\* What one GET /status of wait_for_rasa can give: status 200, another
\* status, or an exception (refused, timed out after 5 s).
ProbeOutcomes == {"200", "status", "exception"}

\* Mutant: the loop of wait_for_rasa has no bound.
next_attempt_unbounded(a) ==
    [startup |-> "probe", attempt |-> 0, ready |-> "unset"]

\* for attempt in range(max_retries): the next iteration after iteration a,
\* or the return False after the last one.
next_attempt(a) ==
    IF a + 1 < max_retries
    THEN [startup |-> "probe", attempt |-> a + 1, ready |-> "unset"]
    ELSE [startup |-> "complete", attempt |-> a, ready |-> "False"]

\* await db_client.connect() in its try/except, when there is a client.
ConnectDatabase ==
    /\ startup = "db"
    /\ pool' = IF db_client = "client" /\ store_up THEN "pool" ELSE pool
    /\ startup' = "probe"
    /\ UNCHANGED <<config, active_connections, transport, pc, data,
                   user_message, out, nframes, gateway, lastSend, escaped,
                   restVars, triageVars, healthVars, attempt, probes, ready,
                   db_client, store_up, op, queries, op_status, nops, rows,
                   rows_before>>

\* One iteration of wait_for_rasa up to its await: the probe and its result.
Probe ==
    /\ startup = "probe"
    /\ \E outcome \in ProbeOutcomes :
        /\ probes' = Append(probes, outcome)
        /\ IF outcome = "200"
           THEN /\ ready' = "True"
                /\ startup' = "complete"
                /\ UNCHANGED attempt
           ELSE IF outcome = "exception"
           THEN /\ startup' = "sleep"
                /\ UNCHANGED <<attempt, ready>>
           ELSE LET n == next_attempt(attempt)
                IN  /\ startup' = n.startup
                    /\ attempt' = n.attempt
                    /\ ready' = n.ready
    /\ UNCHANGED <<config, active_connections, transport, pc, data,
                   user_message, out, nframes, gateway, lastSend, escaped,
                   restVars, triageVars, healthVars, storeVars>>

\* await asyncio.sleep(self.retry_delay) in the except branch.
Sleep ==
    /\ startup = "sleep"
    /\ probes' = Append(probes, "sleep")
    /\ LET n == next_attempt(attempt)
       IN  /\ startup' = n.startup
           /\ attempt' = n.attempt
           /\ ready' = n.ready
    /\ UNCHANGED <<config, active_connections, transport, pc, data,
                   user_message, out, nframes, gateway, lastSend, escaped,
                   restVars, triageVars, healthVars, storeVars>>

NextStartup ==
    \/ ConnectDatabase
    \/ Probe
    \/ Sleep

InitStartup ==
    /\ Start({})
    /\ TriageIdle
    /\ startup = "db"
    /\ attempt = 0
    /\ probes = <<>>
    /\ ready = "unset"
    /\ db_client \in {"None", "client"}
    /\ pool = "None"
    /\ store_up \in BOOLEAN
    /\ StoreIdle

\* The event loop runs the startup coroutine: every await of it returns or
\* raises (the connect and the probes time out, the sleep ends).
SpecStartup == InitStartup /\ [][NextStartup]_vars /\ WF_vars(NextStartup)

\* ------------------------------------------------------ check_rasa_health
\* A GET request: the base URL and the path appended to it.
HttpGet(url, path) == [url |-> url, path |-> path]

\* Mutant: a failed health check makes a fallback the primary endpoint.
CheckHealth_promotes ==
    /\ Len(health_calls) < MaxHealth
    /\ \E outcome \in ProbeOutcomes :
        /\ health_calls' = Append(health_calls, HttpGet(rasa_url, "/"))
        /\ rasa_healthy' = IF outcome = "200" THEN "True" ELSE "False"
        /\ rasa_url' = IF outcome = "200" THEN rasa_url ELSE fallback_urls[2]
    /\ UNCHANGED <<fallback_urls, active_connections, transport, pc, data,
                   user_message, out, nframes, gateway, lastSend, escaped,
                   restVars, triageVars, startupVars, storeVars>>

\* GET /health and GET /debug/rasa-status: one GET of rasa_url + "/" with
\* timeout 5.0; True on status 200, False on another status or an exception.
CheckHealth ==
    /\ Len(health_calls) < MaxHealth
    /\ \E outcome \in ProbeOutcomes :
        /\ health_calls' = Append(health_calls, HttpGet(rasa_url, "/"))
        /\ rasa_healthy' = IF outcome = "200" THEN "True" ELSE "False"
    /\ UNCHANGED <<config, active_connections, transport, pc, data,
                   user_message, out, nframes, gateway, lastSend, escaped,
                   restVars, triageVars, startupVars, storeVars>>

\* The gateway in use: the startup polling, then dispatches from
\* chat_endpoint and health checks in any order.
NextGateway ==
    \/ NextStartup
    \/ startup = "complete" /\ NextRest
    \/ startup = "complete" /\ CheckHealth

InitGateway ==
    /\ Start({Rest})
    /\ TriageIdle
    /\ startup = "db"
    /\ attempt = 0
    /\ probes = <<>>
    /\ ready = "unset"
    /\ db_client = "client"
    /\ pool = "None"
    /\ store_up = TRUE
    /\ StoreIdle

SpecGateway == InitGateway /\ [][NextGateway]_vars

\* ------------------------------------------------- persistence endpoints
OpNames ==
    {"create_appointment", "cancel_appointment", "save_symptom_report",
     "get_appointments", "create_chat_session", "save_chat_message"}

\* The calls of db_client.execute_query a handler makes, in order.
op_queries(name) ==
    IF name = "create_appointment" THEN <<"patients", "appointments">>
    ELSE <<name>>

\* A call of execute_query and whether it returned rows or raised.
Query(q, ok) == [q |-> q, ok |-> ok]

\* conn.fetch outside a transaction block: the statement is committed when
\* it returns. The upsert writes a patient row, the insert an appointment row.
commit(r, q) ==
    IF q = "patients" THEN Rows(r.patients + 1, r.appointments)
    ELSE IF q = "appointments" THEN Rows(r.patients, r.appointments + 1)
    ELSE r

\* The database goes away or comes back.
DatabaseChange ==
    /\ store_up' = ~store_up
    /\ UNCHANGED <<config, active_connections, transport, pc, data,
                   user_message, out, nframes, gateway, lastSend, escaped,
                   restVars, triageVars, healthVars, startupVars, db_client,
                   pool, op, queries, op_status, nops, rows, rows_before>>

\* A persistence handler up to its first await: 503 without a client or a
\* pool; get_appointments answers 400 without session_id and email.
BeginOp(name) ==
    /\ startup = "complete"
    /\ op.step = 0
    /\ nops < MaxOps
    /\ nops' = nops + 1
    /\ queries' = <<>>
    /\ rows_before' = rows
    /\ IF db_client = "None" \/ pool = "None"
       THEN /\ op_status' = 503
            /\ op' = Op(name, 0)
       ELSE \E params \in {"session_id", "email", "none"} :
                IF name = "get_appointments" /\ params = "none"
                THEN /\ op_status' = 400
                     /\ op' = Op(name, 0)
                ELSE /\ op_status' = 0
                     /\ op' = Op(name, 1)
    /\ UNCHANGED <<config, active_connections, transport, pc, data,
                   user_message, out, nframes, gateway, lastSend, escaped,
                   restVars, triageVars, healthVars, startupVars, db_client,
                   pool, store_up, rows>>

\* await db_client.execute_query(...): one pool.acquire and fetch. It raises
\* when the database is away, and the handler's except answers 500; after
\* the last query the handler answers 200, or 404 when cancel found no row.
ExecuteQuery ==
    /\ op.step > 0
    /\ LET qs == op_queries(op.name)
       IN  /\ queries' = Append(queries, Query(qs[op.step], store_up))
           /\ rows' = IF store_up THEN commit(rows, qs[op.step]) ELSE rows
           /\ IF ~store_up
              THEN /\ op_status' = 500
                   /\ op' = Op(op.name, 0)
              ELSE IF op.step < Len(qs)
              THEN /\ op' = Op(op.name, op.step + 1)
                   /\ UNCHANGED op_status
              ELSE /\ op' = Op(op.name, 0)
                   /\ \E found \in BOOLEAN :
                        op_status' = IF op.name = "cancel_appointment" /\ ~found
                                     THEN 404 ELSE 200
    /\ UNCHANGED <<config, active_connections, transport, pc, data,
                   user_message, out, nframes, gateway, lastSend, escaped,
                   restVars, triageVars, healthVars, startupVars, db_client,
                   pool, store_up, nops, rows_before>>

NextStore ==
    \/ DatabaseChange
    \/ \E name \in OpNames : BeginOp(name)
    \/ ExecuteQuery

\* The application after startup: without a client, with a client whose
\* connect failed, or with a pool.
InitStore ==
    /\ Start({})
    /\ TriageIdle
    /\ Started
    /\ \E c \in {<<"None", "None">>, <<"client", "None">>, <<"client", "pool">>} :
            db_client = c[1] /\ pool = c[2]
    /\ store_up \in BOOLEAN
    /\ StoreIdle

SpecStore == InitStore /\ [][NextStore]_vars

\* ================================================================ claims
\* The prioritized endpoint list of the specification: the primary, then the
\* fallbacks.
Endpoints == <<rasa_url>> \o fallback_urls

\* send_message has returned to the handler, which holds the reply.
Returned(c) == pc[c] = "bot"

ThreeSuggestedActions ==
    << Button("Report Symptoms", "/report_symptoms"),
       Button("Book Appointment", "/book_appointment"),
       Button("Get Advice", "/get_health_advice") >>

IsFallback(r) ==
    /\ r.obj
    /\ r.keys = {"text", "buttons"}
    /\ r.text = FallbackText
    /\ r.buttons = ThreeSuggestedActions

\* C1: send_message never raises to its caller. Whatever each endpoint does
\* (connection failure, timeout, non-success status, undecodable body, empty
\* list, non-empty list), no exception leaves the call, the walk never runs
\* past the end of the list without returning, and what is returned is a
\* reply value: a backend's first reply or the fallback.
C1_DispatchNeverRaises ==
    \A c \in Conns :
        /\ ~dispatchRaised[c]
        /\ pc[c] = "dispatch" => url_idx[c] < Len(Endpoints)
        /\ Returned(c) =>
              \/ IsFallback(rasa_response[c])
              \/ rasa_response[c] \in Replies

\* A call that returned a backend's reply after three failed endpoints.
C1_Witness ==
    \E c \in Conns :
        /\ Returned(c)
        /\ nfail[c] = 3
        /\ got[c].kind = "reply"
        /\ rasa_response[c] \in Replies

\* C2: when every endpoint of the list fails, the call returns the fallback:
\* the fixed text and exactly the three suggested actions, in order.
C2_AllFailGivesFallback ==
    \A c \in Conns :
        (Returned(c) /\ nfail[c] = Len(Endpoints)) =>
            /\ rasa_response[c].obj
            /\ Get(rasa_response[c], "text", "") = FallbackText
            /\ Len(Get(rasa_response[c], "buttons", <<>>)) = 3
            /\ Get(rasa_response[c], "buttons", <<>>) = ThreeSuggestedActions

\* A call that returned after each of the four endpoints failed.
C2_Witness ==
    \E c \in Conns :
        /\ Returned(c)
        /\ nfail[c] = Len(Endpoints)
        /\ got[c].kind = "none"
        /\ Len(calls[c]) = 4

\* C3: when the first N endpoints fail and the next one answers with a
\* non-empty list, the call returns the first reply of that list, and the
\* calls made are to endpoints 1..N+1 of the list, in list order, none after.
C3_FirstReplyInListOrder ==
    \A c \in Conns :
        (Returned(c) /\ got[c].kind = "reply") =>
            /\ rasa_response[c] = got[c].first
            /\ calls[c] = SubSeq(Endpoints, 1, nfail[c] + 1)

\* Two endpoints failed and the third one answered.
C3_Witness ==
    \E c \in Conns :
        /\ Returned(c)
        /\ got[c].kind = "reply"
        /\ nfail[c] = 2
        /\ calls[c] = <<Endpoints[1], Endpoints[2], Endpoints[3]>>

\* C4: an endpoint that answers success with an empty list ends the call at
\* once with the fallback reply; the endpoints after it are not called.
C4_EmptyListReturnsFallbackAtOnce ==
    \A c \in Conns :
        got[c].kind = "empty" =>
            /\ Returned(c)
            /\ IsFallback(rasa_response[c])
            /\ calls[c] = SubSeq(Endpoints, 1, nfail[c] + 1)

\* The first endpoint answered with an empty list; three were left uncalled.
C4_Witness ==
    \E c \in Conns :
        /\ got[c].kind = "empty"
        /\ Returned(c)
        /\ Len(calls[c]) = 1
        /\ Len(calls[c]) < Len(Endpoints)

\* Frames of one sender written on a websocket so far.
Written(c, sender) ==
    Cardinality({ i \in DOMAIN out[c] :
                    out[c][i].type = "message" /\ out[c][i].sender = sender })

\* The handler is between two inbound frames, or has ended.
BetweenFrames(c) == pc[c] \in {"receive", "done"}

\* C5: every message frame received on an Active connection gets a bot frame
\* on that connection, whatever the backend does. Stated on the connections
\* whose transport never failed, where each message frame has left its echo:
\* once the handler is done with a frame, it has written as many bot frames
\* as echoes, and none of them is empty-handed when the backend failed
\* everywhere (the reply it is about to send is then the fallback).
C5_EveryMessageGetsBotFrame ==
    \A c \in Conns :
        /\ (transport[c] = "open" /\ BetweenFrames(c)) =>
                Written(c, "bot") = Written(c, "user")
        /\ (Returned(c) /\ nfail[c] = Len(Endpoints)) =>
                Get(rasa_response[c], "text", "") = FallbackText

\* C6: a malformed or unrecognized inbound frame (invalid JSON, JSON that is
\* no object, unknown type tag) is ignored: on a connection whose client is
\* still there the handler is back at receive and the websocket is still in
\* the list.
C6_MalformedFrameIgnored ==
    \A c \in Conns :
        (Malformed(data[c]) /\ transport[c] = "open") =>
            /\ pc[c] = "receive"
            /\ In(c, active_connections)

\* C7: on every exit path of the receive loop the websocket leaves the list:
\* a handler that has ended is not in active_connections, so whatever is in
\* the list has a running handler, and no exception left the handler.
C7_EveryExitUnregisters ==
    \A c \in Conns :
        /\ pc[c] = "done" => ~In(c, active_connections)
        /\ In(c, active_connections) => pc[c] \notin {"idle", "done"}
        /\ escaped[c] \in {"none", "accept"}

\* A handler that was Active and ended on an exception raised while handling
\* a frame (invalid JSON), its client still connected.
C7_Witness ==
    \E c \in Conns :
        /\ pc[c] = "done"
        /\ data[c].json = "invalid"
        /\ transport[c] = "open"
        /\ Len(out[c]) > 0
        /\ ~In(c, active_connections)

\* C8: send_personal_message tells its caller whether the write went through:
\* what it returns after a failed write differs from what it returns after a
\* successful one.
C8_SendReportsFailure ==
    \A c \in Conns :
        (lastSend[c].n > 0 /\ lastSend[c].failed) =>
            lastSend[c].ret # send_personal_message(active_connections, c, TRUE).ret

\* A send_personal_message call is the step that advances lastSend[c].n.
SendFailedStep(c) ==
    /\ lastSend'[c].n = lastSend[c].n + 1
    /\ lastSend'[c].failed

Without(conns, ws) == SelectSeq(conns, LAMBDA x : x # ws)

\* C9: a send_personal_message whose write fails leaves the target out of the
\* list and every other websocket of the list in it, in the same order.
C9_FailedSendUnregistersOnlyTarget ==
    [][ \A c \in Conns :
            SendFailedStep(c) =>
                /\ ~In(c, active_connections')
                /\ active_connections' = Without(active_connections, c) ]_vars

\* A failed send has taken one websocket out while another one stays in.
C9_Witness ==
    \E c, o \in Conns :
        /\ c # o
        /\ lastSend[c].n > 0
        /\ lastSend[c].failed
        /\ pc[c] # "done"
        /\ ~In(c, active_connections)
        /\ In(o, active_connections)

\* C10: disconnect is idempotent. From every list the program reaches, a
\* second disconnect of the same websocket does not raise and leaves the list
\* as the first one left it, and disconnecting a websocket that is not in the
\* list changes nothing; a handler that unregisters twice ends quietly.
C10_UnregisterIdempotent ==
    \A ws \in Conns :
        LET once  == disconnect(active_connections, ws)
            twice == disconnect(once.conns, ws)
        IN  /\ once.exc = "none"
            /\ twice.exc = "none"
            /\ twice.conns = once.conns
            /\ ~In(ws, once.conns)
            /\ ~In(ws, active_connections) => once.conns = active_connections
            /\ escaped[ws] \in {"none", "accept"}

\* A handler whose websocket was taken out by a failed send and that then
\* went through the except clause, while another websocket is in the list.
C10_Witness ==
    \E c, o \in Conns :
        /\ c # o
        /\ pc[c] = "done"
        /\ lastSend[c].failed
        /\ escaped[c] = "none"
        /\ In(o, active_connections)

\* The handler is in its receive loop (the Active state of the orchestrator).
Active(c) == pc[c] \in {"receive", "echo", "typing", "dispatch", "bot"}

IsWelcome(f) == f.type = "system" /\ f.message = WelcomeText

\* C11: after the handshake the websocket is registered and one system
\* welcome frame is written: it is the first frame of the connection, it is
\* there before any inbound frame is read (on a transport that still takes
\* writes), and no other system frame follows.
C11_OneWelcomeFirst ==
    \A c \in Conns :
        /\ pc[c] = "welcome" => (In(c, active_connections) /\ out[c] = <<>>)
        /\ pc[c] \in {"idle", "welcome"} => data[c] = NoData
        /\ (Active(c) /\ transport[c] = "open") =>
                (Len(out[c]) >= 1 /\ IsWelcome(out[c][1]))
        /\ \A i \in DOMAIN out[c] : (out[c][i].type = "system") <=> (i = 1)
        /\ data[c] # NoData => lastSend[c].n >= 1

\* A connection that got its welcome and then four more frames.
C11_Witness ==
    \E c \in Conns :
        /\ Len(out[c]) = 5
        /\ IsWelcome(out[c][1])
        /\ pc[c] = "receive"

\* The message frames (echo and bot) written on a websocket, in order.
Chat(c) == SelectSeq(out[c], LAMBDA f : f.type = "message")

\* C12: on one connection the frames go out in the order they are produced.
\* The message frames alternate echo, bot, echo, bot; while the backend is
\* asked and until the bot frame is written, the last message frame is the
\* echo of the message being handled (same text), so the echo of a message
\* precedes its dispatch and its bot frame, and both precede the next echo.
C12_EchoThenBotInSequence ==
    \A c \in Conns :
        /\ \A i \in DOMAIN Chat(c) :
              Chat(c)[i].sender = IF i % 2 = 1 THEN "user" ELSE "bot"
        /\ (pc[c] \in {"dispatch", "bot"} /\ transport[c] = "open") =>
              /\ Len(Chat(c)) % 2 = 1
              /\ Chat(c)[Len(Chat(c))] =
                    Frame("message", user_message[c], "user", <<>>, FALSE)
        /\ (pc[c] \in {"receive", "echo", "typing"} /\ transport[c] = "open") =>
              Len(Chat(c)) % 2 = 0
        /\ pc[c] \notin {"dispatch", "bot"} => calls[c] = <<>>

\* Two message frames handled in sequence: echo, bot, echo, bot.
C12_Witness ==
    \E c \in Conns :
        /\ Len(Chat(c)) = 4
        /\ Chat(c)[1].message = "hi"
        /\ Chat(c)[3].message = ""
        /\ Chat(c)[2].sender = "bot"
        /\ Chat(c)[4].sender = "bot"

\* chat_endpoint has answered the request it holds.
Served == pc[Rest] = "idle" /\ nrequests > 0

\* C13: POST /api/v1/chat with an empty or missing message answers 400 and
\* send_message is never called for it; with a non-empty message and a reply
\* object from the backend it answers 200 with text, buttons, session_id and
\* timestamp, and the session_id is the one the caller supplied.
C13_ChatEndpointValidates ==
    LET message == Get(request, "message", "")
    IN  /\ pc[Rest] \in {"dispatch", "respond"} => message # ""
        /\ Served /\ message = "" =>
                /\ response.status = 400
                /\ calls[Rest] = <<>>
        /\ Served /\ message # "" /\ got[Rest].kind = "reply" /\ got[Rest].first.obj =>
                /\ response.status = 200
                /\ response.keys = {"text", "buttons", "session_id", "timestamp"}
                /\ "session_id" \in request.keys =>
                        response.session_id = request.session_id

C13_Witness ==
    /\ Served
    /\ nrequests = 2
    /\ request = Request({"message", "session_id"}, "hi", "s1")
    /\ got[Rest].kind = "reply" /\ got[Rest].first.obj
    /\ response.status = 200
    /\ response.session_id = "s1"

\* The reference classifier: tiers in descending priority over the search
\* text, the lowercased symptoms and free text joined by blanks.
SearchText(list, text) == lower(join(<<" ">>, list \o <<text>>))

Hit(keywords, list, text) ==
    \E k \in {keywords[i] : i \in 1..Len(keywords)} :
        contains(k, SearchText(list, text))

ReferenceTier(list, text) ==
    CASE Hit(emergency_symptoms, list, text) -> "emergency"
      [] ~Hit(emergency_symptoms, list, text) /\ Hit(high_priority, list, text) -> "high"
      [] ~Hit(emergency_symptoms, list, text) /\ ~Hit(high_priority, list, text)
            /\ Len(list) > 1 -> "medium"
      [] OTHER -> "low"

Assessed == urgency_level # "unset"

\* C15: the urgency level the classifier sets is the first-match-wins
\* reference tier: emergency if an emergency keyword occurs in the lowercased
\* text, whatever else occurs; else high if a high-priority keyword occurs;
\* else medium if there is more than one symptom; else low, as for empty
\* input and for a single symptom without keyword.
C15_TierIsFirstMatch ==
    Assessed =>
        LET list == slot_symptoms(symptoms)
        IN  /\ urgency_level = ReferenceTier(list, latest_message)
            /\ Hit(emergency_symptoms, list, latest_message) =>
                    urgency_level = "emergency"
            /\ Len(list) = 0 /\ latest_message = <<>> => urgency_level = "low"
            /\ Len(list) = 1 /\ ~Hit(emergency_symptoms, list, latest_message)
                  /\ ~Hit(high_priority, list, latest_message) =>
                    urgency_level = "low"

C15_Witness ==
    /\ Assessed
    /\ symptoms = Slot("list", << <<"severe", " ", "pain">>, <<"Chest", " ", "pain">> >>)
    /\ urgency_level = "emergency"

\* The readiness probes wait_for_rasa has made, in order.
ProbesMade == SelectSeq(probes, LAMBDA e : e \in ProbeOutcomes)

StartupComplete == startup = "complete"

\* C16: wait_for_rasa makes at most max_retries readiness probes, none after
\* a probe that reported ready, and then returns: startup_event always
\* completes, ready or not, also when no probe ever reports ready.
C16_BoundedPolling ==
    /\ [](Len(ProbesMade) <= max_retries)
    /\ [](\A i \in 1..Len(ProbesMade) :
            ProbesMade[i] = "200" => /\ i = Len(ProbesMade)
                                     /\ StartupComplete
                                     /\ ready = "True")
    /\ [](StartupComplete /\ ready = "False" =>
            /\ Len(ProbesMade) = max_retries
            /\ \A i \in 1..Len(ProbesMade) : ProbesMade[i] # "200")
    /\ <>StartupComplete

C16_Witness ==
    /\ StartupComplete
    /\ ready = "False"
    /\ Len(ProbesMade) = max_retries
    /\ \E i \in 1..Len(probes) : probes[i] = "status"

\* The persistence handler has answered its request.
Answered == op.name # "none" /\ op.step = 0

\* The store was unavailable to the request: there was no pool, or a query
\* of it could not reach the database.
StoreUnavailable ==
    \/ db_client = "None"
    \/ pool = "None"
    \/ \E i \in 1..Len(queries) : ~queries[i].ok

\* C17: a persistence request issues each of its queries at most once, none
\* after a failed one, and whenever the store was unavailable to it the
\* response has status 503.
C17_SingleAttemptOr503 ==
    /\ \A i, j \in 1..Len(queries) : queries[i].q = queries[j].q => i = j
    /\ \A i \in 1..Len(queries) : ~queries[i].ok => i = Len(queries)
    /\ Answered /\ StoreUnavailable => op_status = 503

\* C14: whatever send_message returns has the shape of a DialogueReply, an
\* object with a text and a list of buttons, also when the backend's first
\* reply lacks a field or is no object.
C14_ReplyIsNormalized ==
    \A c \in Conns :
        Returned(c) =>
            /\ rasa_response[c].obj
            /\ {"text", "buttons"} \subseteq rasa_response[c].keys

NoDuplicates(seq) ==
    \A i, j \in DOMAIN seq : i # j => seq[i] # seq[j]

\* C18: within one send_message no endpoint address is called twice, so a
\* call in which everything fails makes as many calls as there are distinct
\* addresses.
C18_OneCallPerAddress ==
    \A c \in Conns :
        /\ NoDuplicates(calls[c])
        /\ (Returned(c) /\ got[c].kind = "none") =>
              Len(calls[c]) = Cardinality({ Endpoints[i] : i \in DOMAIN Endpoints })

\* C19: a connection is in the list for as long as its handler is in the
\* receive loop: a websocket out of the list has no handler that still
\* receives frames, asks the backend or writes.
C19_ActiveImpliesRegistered ==
    \A c \in Conns :
        Active(c) => In(c, active_connections)

\* C20: send_text is never called on a websocket that is not in the list.
C20_NoWriteWhenUnregistered ==
    \A c \in Conns :
        lastSend[c].n > 0 => lastSend[c].member

\* The websocket has been registered by its handshake and no disconnect has
\* been called for it: its handler has not ended and none of its writes failed.
Registered(c) ==
    /\ pc[c] \notin {"idle", "done"}
    /\ ~(lastSend[c].n > 0 /\ lastSend[c].failed)

\* A read error, a write failure or a disconnect happens on websocket c.
FaultStep(c) ==
    \/ SendFailedStep(c)
    \/ pc[c] # "done" /\ pc'[c] = "done"

\* C21: under every interleaving of the handlers the list holds exactly the
\* websockets registered and not yet unregistered, each once, and a fault on
\* one websocket leaves every other one in the list and in its receive loop.
C21_RegistryExact ==
    /\ [](\A c \in Conns : In(c, active_connections) <=> Registered(c))
    /\ [](NoDuplicates(active_connections))
    /\ [][ \A c, d \in Conns :
              c # d /\ FaultStep(c) =>
                /\ In(d, active_connections) => In(d, active_connections')
                /\ Active(d) => Active(d)' /\ pc'[d] = pc[d] ]_vars

\* One websocket has lost its client and left the list, through a failed
\* write and then the end of its handler, while the other is in its loop.
C21_Witness ==
    \E c, d \in Conns :
        /\ c # d
        /\ pc[c] = "done"
        /\ lastSend[c].failed
        /\ ~In(c, active_connections)
        /\ Active(d)
        /\ In(d, active_connections)
        /\ out[d] # <<>>

\* POST /api/v1/appointments has answered with an error.
CreateFailed ==
    /\ Answered
    /\ op.name = "create_appointment"
    /\ op_status >= 400

\* C25: when create_appointment answers with an error, the store is as it
\* was when the request came in: no patient row written, no appointment row
\* written.
C25_CreateAllOrNothing ==
    CreateFailed => rows = rows_before

\* The symptoms slot holds an emergency keyword of the classifier.
HasEmergencyKeyword ==
    any_in(emergency_symptoms, lower(join(<<" ">>, slot_symptoms(symptoms))))

\* C26: a report saved for symptoms that hold one of the classifier's
\* emergency keywords has urgency_level high and severity 8.
C26_ReportUrgencyMatchesClassifier ==
    symptom_data.posted /\ HasEmergencyKeyword =>
        /\ symptom_data.urgency_level = "high"
        /\ symptom_data.severity = 8

\* The endpoint configuration as RasaClient.__init__ sets it.
ConstructedEndpoints ==
    << "http://localhost:5005", "http://localhost:5005",
       "http://127.0.0.1:5005", "http://rasa:5005" >>

\* What a dispatch returns, from what it has seen of the backend: the first
\* reply of the endpoint that answered, else the fallback reply.
ResultFromOutcomes(t) ==
    IF got[t].kind = "reply" THEN got[t].first ELSE _create_fallback_response

\* C22: the primary address and the fallback list stay as constructed
\* through startup polling, dispatches and health checks; a health check
\* requests the primary address only; a dispatch walks the constructed list
\* from its start and returns what its own backend outcomes determine.
C22_ConfigReadOnly ==
    /\ <<rasa_url>> \o fallback_urls = ConstructedEndpoints
    /\ \A i \in 1..Len(health_calls) :
            health_calls[i] = HttpGet(ConstructedEndpoints[1], "/")
    /\ \A t \in Tasks :
        /\ calls[t] = SubSeq(ConstructedEndpoints, 1, Len(calls[t]))
        /\ Len(calls[t]) = nfail[t] + (IF got[t].kind = "none" THEN 0 ELSE 1)
        /\ pc[t] \in {"respond", "bot"} => rasa_response[t] = ResultFromOutcomes(t)

\* The second dispatch, after a startup polling that never found Rasa ready
\* and a failed health check, gets its reply from the primary endpoint.
C22_Witness ==
    /\ ready = "False"
    /\ rasa_healthy = "False"
    /\ nrequests = 2
    /\ pc[Rest] = "respond"
    /\ calls[Rest] = <<"http://localhost:5005">>
    /\ got[Rest].kind = "reply"

\* C23: in the startup polling a delay lies between every two consecutive
\* probes: a probe that did not report ready, by an exception or by a
\* status other than 200, is followed by the sleep before the next probe.
C23_DelayBetweenProbes ==
    \A i \in 1..(Len(probes) - 1) :
        probes[i] \in ProbeOutcomes => probes[i + 1] = "sleep"

\* The message a task hands to send_message.
Forwarded(t) ==
    IF t = Rest THEN Get(request, "message", "") ELSE user_message[t]

\* C24: send_message is called with a non-empty message only, from
\* chat_endpoint and from the websocket handler alike.
C24_EmptyNeverForwarded ==
    \A t \in Tasks :
        pc[t] = "dispatch" => Forwarded(t) # ""
====
